---- MODULE Spec2Model ----
(***************************************************************************)
(* A model of the OpenClaw supervisor bot (src/supervisor/supervisor.py):  *)
(* the edge-triggered health watchdog, the text chunker, and the streaming *)
(* process runner with its coordinator and edit throttle, the health probe *)
(* and the dispatch loop with its authorization check and session resets.  *)
(*                                                                         *)
(* Each part has a specification of its own (SpecWatchdog, SpecChunk,      *)
(* SpecTurn, SpecProbe, SpecDispatch, ...); the variables of the parts a   *)
(* specification does not run stay at their initial values.                *)
(***************************************************************************)
EXTENDS Integers, Sequences, FiniteSets, TLC

VARIABLES
    \* ---- watchdog (supervisor.py 406-442) ----
    watchdog_last_state,   \* the module-level dict {"healthy", "alerted"}
    probes,                \* history: outcome of each watchdog iteration's probe
    wdSent,                \* history: messages the watchdog passed to send()
    \* ---- check_gateway_health (supervisor.py 334-387), block by block ----
    hcPc,                  \* "idle", "launchctl" (340), "port" (362), "log" (376),
                           \* "returned" (387), "raised"
    hcHealthy,             \* the local healthy
    hcLines,               \* the local lines
    hcSeen,                \* history: what the sub-checks of this call observed
    hcCalls,               \* budget: calls of check_gateway_health begun
    \* ---- chunk_text (supervisor.py 123-139) ----
    ctPc,                  \* "idle", "entry" (line 125), "loop" (line 128), "done"
    ctOrig,                \* the text argument as passed
    ctLimit,               \* the limit argument
    ctText,                \* the local text: what is left to split
    ctChunks,              \* the local chunks
    ctStripped,            \* history: newlines the lstrip removed after each cut
    \* ---- process state shared by the turns ----
    sessions,              \* the module-level dict: chat_id -> session token
    now,                   \* time.time()
    \* ---- handle_message (supervisor.py 447-568) ----
    hmPc,                  \* "idle", "working" (lines 531-538), "done"
    chat_id,               \* the conversation of the turn
    placeholder,           \* message id returned by send(chat_id, "..."), or None
    last_edit_time,        \* last_edit_time[0]
    last_edit_text,        \* last_edit_text[0]
    tgLog,                 \* history: the turn's Telegram calls that send, edit
                           \* or delete a message, in order (the typing signals
                           \* of lines 500, 519 and 538 change nothing and are
                           \* not recorded)
    typings,               \* history: the typing signals of the turn
                           \* (sendChatAction, lines 500, 519 and 538)
    \* ---- run_claude_streaming (supervisor.py 176-261) ----
    rcPc,                  \* "idle", "reading" (216), "waiting" (251), "returned", "raised"
    session_id,            \* the token looked up at line 178, or None
    full_text,
    new_session_id,
    deadline,
    proc,                  \* the child: "none", "running", "exited", "killed"
    returncode,
    result,                \* the value returned (kind and text), or None
    rcLines,               \* history: the stdout lines read in this invocation
    rcCalls,               \* history: the arguments on_partial was called with
    \* ---- poll_loop (supervisor.py 646-681) ----
    dpPc,                  \* "polling" (line 660), "handling" (lines 670-673)
    update,                \* the update being handled, or None between two updates
    nRaised,               \* history: the turns whose runner invocation raised
    regLog,                \* history: the writes and clears of sessions, in order
    observed,              \* history: per chat, the last token an invocation
                           \* decoded from the stream; absent after a reset
    \* ---- budgets of the exploration ----
    nLines, nTicks, nUpdates

wdVars == <<watchdog_last_state, probes, wdSent>>
hcVars == <<hcPc, hcHealthy, hcLines, hcSeen, hcCalls>>
ctVars == <<ctPc, ctOrig, ctLimit, ctText, ctChunks, ctStripped>>
hmVars == <<hmPc, chat_id, placeholder, last_edit_time, last_edit_text, tgLog,
            typings>>
rcVars == <<rcPc, session_id, full_text, new_session_id, deadline, proc,
            returncode, result, rcLines, rcCalls>>
dpVars == <<dpPc, update, nRaised, regLog, observed, nUpdates>>
budgetVars == <<nLines, nTicks>>
turnVars == <<sessions, now, hmVars, rcVars, budgetVars, dpVars>>

vars == <<wdVars, hcVars, ctVars, turnVars>>

(***************************************************************************)
(* Bounds of the model.                                                    *)
(***************************************************************************)
\* Number of watchdog iterations explored.
MaxProbes == 4
\* Longest text and largest limit given to chunk_text.
MaxTextLen == 6
MaxLimit == 5
\* Characters of those texts: a letter, a space, a newline.
Chars == {"a", " ", "\n"}
\* Loop iterations of chunk_text explored (a terminating call on a text of
\* MaxTextLen characters makes at most MaxTextLen + 1 pieces).
MaxChunks == MaxTextLen + 3
\* Stdout lines read and clock steps taken in one turn.
MaxLines == 3
MaxTicks == 2
\* Updates the dispatch loop receives.
MaxUpdates == 3
\* Typing signals up to which the join loop of a turn goes on sending them.
MaxTypings == 4
\* time.time() when the exploration starts.
StartTime == 1000

(***************************************************************************)
(* Health probe: check_gateway_health (supervisor.py 334-387).             *)
(* Its inputs are what the three sub-checks observe.                       *)
(***************************************************************************)
\* launchctl list: the gateway line shows a PID, shows "-" for the PID, is
\* absent, or the call fails (tool missing, timeout, malformed line).
LaunchctlOutcomes == {"pid", "nopid", "notloaded", "failed"}
\* lsof: some output, no output, or the call fails.
LsofOutcomes == {"listening", "notlistening", "failed"}
\* gateway.err.log: has lines, is empty, is missing (FileNotFoundError), or
\* cannot be read (PermissionError, UnicodeDecodeError: not caught).
LogOutcomes == {"lines", "empty", "missing", "unreadable"}

\* Lines 340-359: the launchctl block's effect on healthy, and its summary line.
LaunchctlHealthy(l) == l = "pid"
LaunchctlLine(l) ==
    CASE l = "pid"       -> "Gateway: PID"
      [] l = "nopid"     -> "Gateway: NOT running (no PID)"
      [] l = "notloaded" -> "Gateway: NOT loaded in launchctl"
      [] l = "failed"    -> "Gateway: launchctl check failed"

\* Lines 362-373: the port block; a failed lsof call leaves healthy alone.
LsofHealthy(p) == p # "notlistening"
LsofLine(p) ==
    CASE p = "listening"    -> "Port 18789: LISTENING"
      [] p = "notlistening" -> "Port 18789: NOT listening"
      [] p = "failed"       -> "Port check: failed"

\* Lines 376-385: the log tail; only FileNotFoundError is caught.
LogLine(g) ==
    CASE g = "lines"   -> "Recent errors"
      [] g = "empty"   -> "No recent errors in log."
      [] g = "missing" -> "Error log not found."
      [] OTHER         -> "unreachable"

\* The whole probe: it raises when the log cannot be read, and otherwise
\* returns (healthy, summary lines).
check_gateway_health(l, p, g) ==
    IF g = "unreadable"
    THEN [raised |-> TRUE, healthy |-> FALSE, lines |-> <<>>]
    ELSE [raised  |-> FALSE,
          healthy |-> LaunchctlHealthy(l) /\ LsofHealthy(p),
          lines   |-> <<LaunchctlLine(l), LsofLine(p), LogLine(g)>>]

(***************************************************************************)
(* The same probe block by block, as one call executes it.                 *)
(***************************************************************************)
ProbeIdle ==
    /\ hcPc = "idle" /\ hcHealthy = TRUE /\ hcLines = <<>>
    /\ hcSeen = <<>> /\ hcCalls = 0

\* Lines 336-337: a call begins (from the watchdog, /status or a button).
ProbeBegin ==
    /\ hcPc \in {"idle", "returned", "raised"}
    /\ hcCalls < MaxProbes
    /\ hcCalls' = hcCalls + 1
    /\ hcPc' = "launchctl"
    /\ hcHealthy' = TRUE
    /\ hcLines' = <<>>
    /\ hcSeen' = <<>>
    /\ UNCHANGED <<wdVars, ctVars, turnVars>>

\* Lines 340-359.
LaunchctlBlock(l) ==
    /\ hcPc = "launchctl"
    /\ hcPc' = "port"
    /\ hcHealthy' = IF LaunchctlHealthy(l) THEN hcHealthy ELSE FALSE
    /\ hcLines' = Append(hcLines, LaunchctlLine(l))
    /\ hcSeen' = Append(hcSeen, l)
    /\ UNCHANGED hcCalls
    /\ UNCHANGED <<wdVars, ctVars, turnVars>>

\* Lines 362-373.
PortBlock(p) ==
    /\ hcPc = "port"
    /\ hcPc' = "log"
    /\ hcHealthy' = IF LsofHealthy(p) THEN hcHealthy ELSE FALSE
    /\ hcLines' = Append(hcLines, LsofLine(p))
    /\ hcSeen' = Append(hcSeen, p)
    /\ UNCHANGED hcCalls
    /\ UNCHANGED <<wdVars, ctVars, turnVars>>

\* Lines 376-387: the log tail and the return; an exception of read_text
\* other than FileNotFoundError leaves the function.
LogBlock(g) ==
    /\ hcPc = "log"
    /\ hcSeen' = Append(hcSeen, g)
    /\ IF g = "unreadable"
       THEN hcPc' = "raised" /\ UNCHANGED hcLines
       ELSE hcPc' = "returned" /\ hcLines' = Append(hcLines, LogLine(g))
    /\ UNCHANGED <<hcHealthy, hcCalls>>
    /\ UNCHANGED <<wdVars, ctVars, turnVars>>

(***************************************************************************)
(* Watchdog: watchdog_loop (supervisor.py 409-442).                        *)
(***************************************************************************)
WatchdogInit ==
    /\ watchdog_last_state = [healthy |-> TRUE, alerted |-> FALSE]  \* line 406
    /\ probes = <<>>
    /\ wdSent = <<>>

\* The "went down" guard without the test of the alerted flag.
DownBranchEveryTime(healthy, st) == ~healthy
\* Line 417: the guard of the "went down" branch.
DownBranch(healthy, st) == ~healthy /\ ~st.alerted
\* Line 431: the guard of the "recovered" branch.
RecoveredBranch(healthy, st) == healthy /\ ~st.healthy

\* Lines 419-420: the state written by the "went down" branch.
DownState(st) == [healthy |-> FALSE, alerted |-> TRUE]
\* The recovered branch with the alert flag left set.
RecoveredStateKeepsAlert(st) == [healthy |-> TRUE, alerted |-> st.alerted]
\* Lines 433-434: the state written by the "recovered" branch.
RecoveredState(st) == [healthy |-> TRUE, alerted |-> FALSE]

\* An exception handler that records the gateway as unhealthy.
StateAfterProbeErrorUnhealthy(st) == [healthy |-> FALSE, alerted |-> st.alerted]
\* Lines 441-442: the handler of a probe exception only logs.
StateAfterProbeError(st) == st

\* A watchdog that runs its iteration only while no turn is being worked on.
WatchdogMayRunBetweenTurns == hmPc # "working"
\* Lines 412-414 and 651-656: the watchdog has a thread of its own, whose
\* only wait is its sleep; it takes no lock and joins nothing.
WatchdogMayRun == TRUE

\* One iteration of the loop body after the sleep (lines 415-442).
WatchdogIteration(l, p, g) ==
    LET r  == check_gateway_health(l, p, g)
        st == watchdog_last_state
        at == Len(probes) + 1
    IN  /\ Len(probes) < MaxProbes
        /\ WatchdogMayRun
        /\ IF r.raised
           THEN \* line 441: the exception is logged, nothing else happens
                /\ probes' = Append(probes, "raised")
                /\ watchdog_last_state' = StateAfterProbeError(st)
                /\ UNCHANGED wdSent
           ELSE /\ probes' = Append(probes, IF r.healthy THEN "healthy" ELSE "unhealthy")
                /\ IF DownBranch(r.healthy, st)
                   THEN /\ watchdog_last_state' = DownState(st)
                        /\ wdSent' = Append(wdSent,
                              [kind |-> "down", at |-> at, status |-> r.lines])
                   ELSE IF RecoveredBranch(r.healthy, st)
                   THEN /\ watchdog_last_state' = RecoveredState(st)
                        /\ wdSent' = Append(wdSent,
                              [kind |-> "recovered", at |-> at, status |-> <<>>])
                   ELSE IF r.healthy
                   THEN /\ watchdog_last_state' = [st EXCEPT !.alerted = FALSE]
                        /\ UNCHANGED wdSent
                   ELSE UNCHANGED <<watchdog_last_state, wdSent>>
        /\ UNCHANGED <<hcVars, ctVars, turnVars>>

WatchdogStep ==
    \E l \in LaunchctlOutcomes, p \in LsofOutcomes, g \in LogOutcomes :
        WatchdogIteration(l, p, g)

(***************************************************************************)
(* Text chunker: chunk_text (supervisor.py 123-139).                       *)
(* A text is a sequence of characters; Python's 0-based positions are kept *)
(* (text[i] of the source is text[i + 1] here).                            *)
(***************************************************************************)
TextsUpTo(n) == UNION {[1..k -> Chars] : k \in 0..n}

Max(S) == CHOOSE x \in S : \A y \in S : y <= x

\* str.rfind(ch, 0, end): the highest position below end holding ch, else -1.
RFind(text, ch, end) ==
    LET hits == {i \in 0..(end - 1) : i < Len(text) /\ text[i + 1] = ch}
    IN  IF hits = {} THEN -1 ELSE Max(hits)

\* text[:cut] and text[cut:].
Prefix(text, cut) == SubSeq(text, 1, cut)
Suffix(text, cut) == SubSeq(text, cut + 1, Len(text))

\* An lstrip that also removes leading spaces.
RECURSIVE LStripWhitespace(_)
LStripWhitespace(text) ==
    IF text # <<>> /\ Head(text) \in {"\n", " "}
    THEN LStripWhitespace(Tail(text)) ELSE text

\* str.lstrip("\n") (line 138).
RECURSIVE LStripNewlines(_)
LStripNewlines(text) ==
    IF text # <<>> /\ Head(text) = "\n" THEN LStripNewlines(Tail(text)) ELSE text

\* The cut with a hard cut one character past the limit.
CutPastLimit(text, limit) ==
    LET c1 == RFind(text, "\n", limit)
        c2 == IF c1 < limit \div 2 THEN RFind(text, " ", limit) ELSE c1
    IN  IF c2 < limit \div 4 THEN limit + 1 ELSE c2

\* Lines 132-136: where one iteration cuts a text longer than limit.
Cut(text, limit) ==
    LET c1 == RFind(text, "\n", limit)
        c2 == IF c1 < limit \div 2 THEN RFind(text, " ", limit) ELSE c1
    IN  IF c2 < limit \div 4 THEN limit ELSE c2

ChunkIdle ==
    /\ ctPc = "idle" /\ ctOrig = <<>> /\ ctLimit = 1
    /\ ctText = <<>> /\ ctChunks = <<>> /\ ctStripped = <<>>

\* A call chunk_text(text, limit).
ChunkInit ==
    /\ ctPc = "entry"
    /\ ctOrig \in TextsUpTo(MaxTextLen)
    /\ ctLimit \in 1..MaxLimit
    /\ ctText = ctOrig
    /\ ctChunks = <<>>
    /\ ctStripped = <<>>

\* Lines 125-128: the early return, else the first test of "while text"
\* (a text longer than limit >= 1 is not empty).
ChunkEntry ==
    /\ ctPc = "entry"
    /\ IF Len(ctText) <= ctLimit
       THEN ctChunks' = <<ctText>> /\ ctPc' = "done"
       ELSE ctChunks' = <<>> /\ ctPc' = "loop"
    /\ UNCHANGED <<ctOrig, ctLimit, ctText, ctStripped>>
    /\ UNCHANGED <<wdVars, hcVars, turnVars>>

\* Lines 129-138 and the next test of "while text": one loop iteration.
ChunkIteration ==
    /\ ctPc = "loop"
    /\ Len(ctChunks) < MaxChunks
    /\ IF Len(ctText) <= ctLimit
       THEN \* lines 129-131: the last piece, then break
            /\ ctChunks' = Append(ctChunks, ctText)
            /\ ctPc' = "done"
            /\ UNCHANGED <<ctText, ctStripped>>
       ELSE LET cut  == Cut(ctText, ctLimit)
                rest == Suffix(ctText, cut)
                next == LStripNewlines(rest)
            IN  /\ ctChunks' = Append(ctChunks, Prefix(ctText, cut))
                /\ ctText' = next
                /\ ctStripped' = Append(ctStripped, Len(rest) - Len(next))
                /\ ctPc' = IF next = <<>> THEN "done" ELSE "loop"
    /\ UNCHANGED <<ctOrig, ctLimit>>
    /\ UNCHANGED <<wdVars, hcVars, turnVars>>

(***************************************************************************)
(* Values shared by the runner and the coordinator.                        *)
(* A text is a string.  An optional value (a dict entry, a JSON field, a   *)
(* Python None) is <<>> when absent and <<v>> when present.                *)
(***************************************************************************)
None == <<>>
Some(v) == <<v>>

\* A text of n characters.
RECURSIVE Xs(_)
Xs(n) == IF n = 0 THEN ""
         ELSE IF n % 2 = 1 THEN "x" \o Xs(n - 1)
         ELSE LET h == Xs(n \div 2) IN h \o h

CLAUDE_TIMEOUT == 120
MAX_MSG_LEN == 4000
\* Line 512: seconds between two progressive edits.
EditInterval == 3
\* Line 513: characters a partial text must have grown by.
EditMinGrowth == 40

Chats == {"c1", "c2"}
TickSteps == {1, CLAUDE_TIMEOUT}

(***************************************************************************)
(* The child's stdout lines (lines 221-230): blank after strip, not JSON,  *)
(* JSON that is not an object, or an object with its fields.               *)
(***************************************************************************)
Ln(kind, type, message, res, sid) ==
    [kind |-> kind, type |-> type, message |-> message, result |-> res,
     session_id |-> sid]
Obj(type, message, res, sid) == Ln("object", type, message, res, sid)

LBlank        == Ln("blank", "", None, None, None)
LGarbage      == Ln("garbage", "", None, None, None)
LNonObject    == Ln("nonobject", "", None, None, None)
LSystem       == Obj("system", None, None, Some("s0"))
LHe           == Obj("assistant", Some("He"), None, None)
LHello        == Obj("assistant", Some("Hello"), None, None)
LEmptyMessage == Obj("assistant", Some(""), None, None)
LLong         == Obj("assistant", Some(Xs(EditMinGrowth + 1)), None, None)
LResult       == Obj("result", None, Some("Hello!"), Some("s1"))
LResultNoText == Obj("result", None, None, None)

\* Result events whose texts lie around MAX_MSG_LEN.
LResultAtLimit       == Obj("result", None, Some(Xs(MAX_MSG_LEN)), None)
LResultOverLimit     == Obj("result", None, Some(Xs(MAX_MSG_LEN + 1)), None)
LResultTwoParagraphs ==
    Obj("result", None,
        Some(Xs(MAX_MSG_LEN - 1000) \o "\n" \o Xs(1500)), None)
DeliverLines == {LResult, LResultAtLimit, LResultOverLimit, LResultTwoParagraphs}

\* Partial messages whose lengths lie around the thresholds of on_partial.
ThrottleLines ==
    {Obj("assistant", Some(t), None, None) :
        t \in {"He", Xs(EditMinGrowth), Xs(EditMinGrowth + 1),
               Xs(2 * EditMinGrowth + 2), Xs(MAX_MSG_LEN), Xs(MAX_MSG_LEN + 1)}}
ThrottleTickSteps == {1, EditInterval - 1}

Lines == {LBlank, LGarbage, LNonObject, LSystem, LHe, LHello, LEmptyMessage,
          LLong, LResult, LResultNoText}

\* Lines 222-228: the lines the loop skips with "continue".
Skipped(line) == line.kind \in {"blank", "garbage"}
\* Line 230: event.get raises on JSON that is not an object.
RaisesInLoop(line) == line.kind = "nonobject"
\* Line 236: the branch of a partial message chunk.
IsProgress(line) ==
    line.kind = "object" /\ line.type = "assistant" /\ line.message # None
\* Line 243.
IsResult(line) == line.kind = "object" /\ line.type = "result"
\* Line 233: a decoded event with a session_id field.
CarriesToken(line) == line.kind = "object" /\ line.session_id # None

\* An entry of regLog: sessions[chat] = token (line 254), or
\* sessions.pop(chat, None) (line 164).
RegWrite(chat, token) == [op |-> "set", chat |-> chat, token |-> token]
RegClear(chat) == [op |-> "clear", chat |-> chat, token |-> ""]

(***************************************************************************)
(* Telegram calls, as recorded in tgLog.                                   *)
(***************************************************************************)
Call(op, text) == [op |-> op, text |-> text]

(***************************************************************************)
(* on_partial (supervisor.py 508-519), the closure of handle_message.      *)
(***************************************************************************)
\* The throttle test with growth of EditMinGrowth characters accepted.
ShouldEditAtMinGrowth(text) ==
    /\ now - last_edit_time >= EditInterval
    /\ Len(text) - Len(last_edit_text) >= EditMinGrowth
    /\ placeholder # None
    /\ Len(text) <= MAX_MSG_LEN

\* Lines 512-515: the throttle test.
ShouldEdit(text) ==
    /\ now - last_edit_time >= EditInterval
    /\ Len(text) - Len(last_edit_text) > EditMinGrowth
    /\ placeholder # None
    /\ Len(text) <= MAX_MSG_LEN

\* Lines 510-519: a call on_partial(text).
on_partial(text) ==
    /\ rcCalls' = Append(rcCalls, text)
    /\ IF ShouldEdit(text)
       THEN /\ tgLog' = Append(tgLog, Call("editMessageText", text))
            /\ last_edit_time' = now
            /\ last_edit_text' = text
            /\ typings' = typings + 1
       ELSE UNCHANGED <<tgLog, last_edit_time, last_edit_text, typings>>

(***************************************************************************)
(* run_claude_streaming (supervisor.py 176-261).                           *)
(***************************************************************************)
Returned(kind, text) == Some([kind |-> kind, text |-> text])
TimeoutText == "[timeout] Claude took too long (>120s). Try /new to reset."
NoResponseText == "[error] No response from Claude."
ProcessErrorText == "[error] Claude exited with code"
StartErrorText == "[error] Failed to start Claude"

\* The progress branch taking an empty message like any other.
AcceptsPartialAlways(partial) == TRUE
\* Line 239: "if partial and on_partial"; on_partial is always passed (527).
AcceptsPartial(partial) == partial # ""

\* Line 244: event.get("result", full_text).
ResultText(line, text) ==
    IF line.result # None THEN line.result[1] ELSE text

\* Lines 233-234 (and 245-246): the token an event carries replaces the last.
SessionAfter(line, sid) ==
    IF line.session_id # None THEN line.session_id ELSE sid

\* Lines 188-191: the mode arguments of the child's command line.
cmd ==
    IF session_id # None THEN <<"--resume", session_id[1]>>
    ELSE <<"--append-system-prompt", "system_prompt">>

\* Lines 253-254: the token seen in the stream is written to the registry.
SessionsAfterRun(chat, sid) ==
    IF sid # None THEN [sessions EXCEPT ![chat] = sid] ELSE sessions

\* Lines 256-261: the value returned after the wait.
FinalValue(code, text) ==
    IF code # 0 /\ text = "" THEN Returned("process_error", ProcessErrorText)
    ELSE IF text # "" THEN Returned("text", text)
    ELSE Returned("no_output", NoResponseText)

\* Lines 216-246: one line arrives on stdout and one iteration of the loop
\* runs on it.
ReadLine(line) ==
    /\ rcPc = "reading"
    /\ nLines < MaxLines
    /\ nLines' = nLines + 1
    /\ IF now > deadline
       THEN \* lines 217-219: kill and return, before the line is decoded
            /\ proc' = "killed"
            /\ rcPc' = "returned"
            /\ result' = Returned("timeout", TimeoutText)
            /\ UNCHANGED <<full_text, new_session_id, rcLines, rcCalls,
                           tgLog, typings, last_edit_time, last_edit_text>>
       ELSE /\ rcLines' = Append(rcLines, line)
            /\ UNCHANGED <<proc, result>>
            /\ IF Skipped(line)
               THEN UNCHANGED <<rcPc, full_text, new_session_id, rcCalls,
                                tgLog, typings, last_edit_time, last_edit_text>>
               ELSE IF RaisesInLoop(line)
               THEN \* line 248: the exception ends the loop
                    /\ rcPc' = "waiting"
                    /\ UNCHANGED <<full_text, new_session_id, rcCalls,
                                   tgLog, typings, last_edit_time, last_edit_text>>
               ELSE /\ rcPc' = "reading"
                    /\ new_session_id' = SessionAfter(line, new_session_id)
                    /\ IF IsProgress(line)
                       THEN IF AcceptsPartial(line.message[1])
                            THEN /\ full_text' = line.message[1]
                                 /\ on_partial(line.message[1])
                            ELSE UNCHANGED <<full_text, rcCalls, tgLog, typings,
                                             last_edit_time, last_edit_text>>
                       ELSE /\ full_text' = IF IsResult(line)
                                            THEN ResultText(line, full_text)
                                            ELSE full_text
                            /\ UNCHANGED <<rcCalls, tgLog, typings, last_edit_time,
                                           last_edit_text>>
    /\ observed' = IF now <= deadline /\ CarriesToken(line)
                    THEN [observed EXCEPT ![chat_id] = line.session_id]
                    ELSE observed
    /\ UNCHANGED <<sessions, now, hmPc, chat_id, placeholder, session_id,
                   deadline, returncode, nTicks>>
    /\ UNCHANGED <<wdVars, hcVars, ctVars, dpPc, update, nRaised, regLog, nUpdates>>

\* Line 216: stdout reaches end of file and the loop ends.
StreamEnd ==
    /\ rcPc = "reading"
    /\ rcPc' = "waiting"
    /\ UNCHANGED <<sessions, now, hmVars, session_id, full_text, new_session_id,
                   deadline, proc, returncode, result, rcLines, rcCalls,
                   budgetVars>>
    /\ UNCHANGED <<wdVars, hcVars, ctVars, dpVars>>

\* Lines 251-261: the child exits with code within the 10 s of proc.wait.
WaitReturns(code) ==
    /\ rcPc = "waiting"
    /\ proc' = "exited"
    /\ returncode' = Some(code)
    /\ sessions' = SessionsAfterRun(chat_id, new_session_id)
    /\ regLog' = IF new_session_id # None
                  THEN Append(regLog, RegWrite(chat_id, new_session_id[1]))
                  ELSE regLog
    /\ result' = FinalValue(code, full_text)
    /\ rcPc' = "returned"
    /\ UNCHANGED <<now, hmVars, session_id, full_text, new_session_id, deadline,
                   rcLines, rcCalls, budgetVars>>
    /\ UNCHANGED <<wdVars, hcVars, ctVars, dpPc, update, nRaised, observed, nUpdates>>

\* Line 251: the child is still running after 10 s; proc.wait raises
\* TimeoutExpired, which leaves the function (caught at line 528).
WaitExpires ==
    /\ rcPc = "waiting"
    /\ rcPc' = "raised"
    /\ UNCHANGED <<sessions, now, hmVars, session_id, full_text, new_session_id,
                   deadline, proc, returncode, result, rcLines, rcCalls,
                   budgetVars>>
    /\ UNCHANGED <<wdVars, hcVars, ctVars, dpVars>>

\* The clock, which the turn reads at lines 213, 217 and 510.
Tick(d) ==
    /\ rcPc = "reading"
    /\ nTicks < MaxTicks
    /\ nTicks' = nTicks + 1
    /\ now' = now + d
    /\ UNCHANGED <<sessions, hmVars, rcVars, nLines>>
    /\ UNCHANGED <<wdVars, hcVars, ctVars, dpVars>>

(***************************************************************************)
(* handle_message (supervisor.py 447-568) for a message of the authorized  *)
(* user that is not a built-in command.                                    *)
(***************************************************************************)
TurnInit ==
    /\ sessions = [c \in Chats |-> None]       \* line 159
    /\ now = StartTime
    /\ hmPc = "idle" /\ chat_id = "c1" /\ placeholder = None
    /\ last_edit_time = 0 /\ last_edit_text = "" /\ tgLog = <<>> /\ typings = 0
    /\ rcPc = "idle" /\ session_id = None /\ full_text = ""
    /\ new_session_id = None /\ deadline = 0 /\ proc = "none"
    /\ returncode = None /\ result = None /\ rcLines = <<>> /\ rcCalls = <<>>
    /\ dpPc = "polling" /\ update = None /\ nRaised = 0 /\ regLog = <<>>
    /\ observed = [c \in Chats |-> None]
    /\ nLines = 0 /\ nTicks = 0 /\ nUpdates = 0

\* Lines 500-532 and 178-213: the placeholder (sent or not), the closure's
\* state, then the worker thread entering run_claude_streaming up to the
\* start of the child (started or not).
StartTurn(chat, sendOk, popenOk) ==
    /\ hmPc = "idle"
    /\ hmPc' = "working"
    /\ chat_id' = chat
    /\ typings' = 1
    /\ tgLog' = <<Call("sendMessage", "...")>>
    /\ placeholder' = IF sendOk THEN Some("placeholder") ELSE None
    /\ last_edit_time' = 0
    /\ last_edit_text' = ""
    /\ session_id' = sessions[chat]
    /\ rcLines' = <<>>
    /\ rcCalls' = <<>>
    /\ returncode' = None
    /\ IF popenOk
       THEN /\ proc' = "running"
            /\ full_text' = ""
            /\ new_session_id' = None
            /\ deadline' = now + CLAUDE_TIMEOUT
            /\ rcPc' = "reading"
            /\ result' = None
       ELSE \* lines 208-209
            /\ proc' = "none"
            /\ rcPc' = "returned"
            /\ result' = Returned("start_error", StartErrorText)
            /\ UNCHANGED <<full_text, new_session_id, deadline>>
    /\ UNCHANGED <<sessions, now, budgetVars>>
    /\ UNCHANGED <<wdVars, hcVars, ctVars, dpVars>>

(***************************************************************************)
(* send (supervisor.py 98-109) on the texts of a turn, which are strings:  *)
(* chunk_text (123-139) is applied to the characters of the text.          *)
(***************************************************************************)
\* n times the character ch, as a string and as a sequence of characters.
RECURSIVE Rep(_, _)
Rep(ch, n) == IF n = 0 THEN ""
              ELSE IF n % 2 = 1 THEN ch \o Rep(ch, n - 1)
              ELSE LET h == Rep(ch, n \div 2) IN h \o h
Run(ch, n) == [ch |-> ch, n |-> n]

\* The replies longer than MAX_MSG_LEN, by their runs of equal characters:
\* one word of MAX_MSG_LEN + 1 letters, and two paragraphs.
OverLimitShape == <<Run("x", MAX_MSG_LEN + 1)>>
TwoParagraphsShape ==
    <<Run("x", MAX_MSG_LEN - 1000), Run("\n", 1), Run("x", 1500)>>
LongShapes == {OverLimitShape, TwoParagraphsShape}

RECURSIVE StrOfShape(_)
StrOfShape(sh) ==
    IF sh = <<>> THEN "" ELSE Rep(Head(sh).ch, Head(sh).n) \o StrOfShape(Tail(sh))
RECURSIVE SeqOfShape(_)
SeqOfShape(sh) ==
    IF sh = <<>> THEN <<>>
    ELSE [i \in 1..Head(sh).n |-> Head(sh).ch] \o SeqOfShape(Tail(sh))

\* The characters of a long reply, and the string of a sequence of characters.
CharsOf(text) == SeqOfShape(CHOOSE sh \in LongShapes : StrOfShape(sh) = text)
RECURSIVE StrOfChars(_, _, _)
StrOfChars(seq, lo, hi) ==
    IF lo > hi THEN ""
    ELSE IF lo = hi THEN seq[lo]
    ELSE LET mid == (lo + hi) \div 2
         IN  StrOfChars(seq, lo, mid) \o StrOfChars(seq, mid + 1, hi)

\* Lines 128-138: the loop of chunk_text, run to its end (it ends for every
\* limit >= 4, and send passes MAX_MSG_LEN).
RECURSIVE ChunkLoop(_, _)
ChunkLoop(text, limit) ==
    IF Len(text) <= limit THEN <<text>>
    ELSE LET cut  == Cut(text, limit)
             next == LStripNewlines(Suffix(text, cut))
         IN  <<Prefix(text, cut)>>
             \o (IF next = <<>> THEN <<>> ELSE ChunkLoop(next, limit))

\* Lines 123-139 on a string.
chunk_text(text, limit) ==
    IF Len(text) <= limit THEN <<text>>
    ELSE LET pieces == ChunkLoop(CharsOf(text), limit)
         IN  [k \in 1..Len(pieces) |-> StrOfChars(pieces[k], 1, Len(pieces[k]))]

\* Lines 100-109: one sendMessage per piece.
send(text) ==
    LET chunks == chunk_text(text, MAX_MSG_LEN)
    IN  [k \in 1..Len(chunks) |-> Call("sendMessage", chunks[k])]

(***************************************************************************)
(* handle_message, lines 535-568: the join loop and the final delivery.    *)
(***************************************************************************)
\* A join loop that gives up waiting at the first join timeout.
WorkerEndedOrJoinTimedOut == TRUE
\* Lines 535-538: the loop is left only when t.is_alive() is false.
WorkerEnded == rcPc \in {"returned", "raised"}

\* Lines 527-529: what the worker left in error_holder and result_holder.
error_holder == IF rcPc = "raised" THEN Some("TimeoutExpired") ELSE None
result_holder == IF rcPc = "returned" THEN Some(result[1].text) ELSE None

\* The test for the in-place edit with the limit itself excluded.
FitsOneEditBelowLimit(response) == Len(response) < MAX_MSG_LEN
\* Line 551: the response can replace the placeholder.
FitsOneEdit(response) == Len(response) <= MAX_MSG_LEN

\* A delivery that stays silent about an error of the worker.
DeliveryCallsSilentOnError(err, res, ph) ==
    IF err # None THEN <<>>
    ELSE IF ph # None THEN <<Call("editMessageText", NoResponseText)>>
    ELSE send(NoResponseText)

\* Lines 540-568: the calls of the final delivery ("if x:" is false for
\* None and for the empty string).
DeliveryCalls(err, res, ph) ==
    IF err # None /\ err # Some("")
    THEN IF ph # None THEN <<Call("editMessageText", "[error] " \o err[1])>>
         ELSE send("[error] " \o err[1])
    ELSE IF res # None /\ res # Some("")
    THEN IF ph # None /\ FitsOneEdit(res[1])
         THEN <<Call("editMessageText", res[1]),
                Call("editMessageReplyMarkup", "")>>
         ELSE (IF ph # None THEN <<Call("deleteMessage", "")>> ELSE <<>>)
              \o send(res[1])
    ELSE IF ph # None THEN <<Call("editMessageText", NoResponseText)>>
         ELSE send(NoResponseText)

\* Lines 535-568: the worker thread has ended, and the reply is delivered.
Deliver ==
    /\ hmPc = "working"
    /\ WorkerEnded
    /\ hmPc' = "done"
    /\ tgLog' = tgLog \o DeliveryCalls(error_holder, result_holder, placeholder)
    /\ UNCHANGED <<sessions, now, chat_id, placeholder, last_edit_time,
                   last_edit_text, typings, rcVars, budgetVars>>
    /\ UNCHANGED <<wdVars, hcVars, ctVars, dpVars>>

\* Lines 535-538: t.join(timeout=5) comes back with the worker thread still
\* alive, and a typing signal is sent.
JoinTimeout ==
    /\ hmPc = "working"
    /\ ~WorkerEnded
    /\ typings < MaxTypings
    /\ typings' = typings + 1
    /\ UNCHANGED <<sessions, now, hmPc, chat_id, placeholder, last_edit_time,
                   last_edit_text, tgLog, rcVars, budgetVars>>
    /\ UNCHANGED <<wdVars, hcVars, ctVars, dpVars>>

(***************************************************************************)
(* poll_loop (supervisor.py 646-681), the entry of handle_message          *)
(* (447-497) and handle_callback (571-627).                                *)
(***************************************************************************)
\* Line 31: the one user id the bot serves.
ALLOWED_USER == "allowed_user"
Users == {ALLOWED_USER, "stranger"}

\* Texts of inbound messages after strip (line 451): empty, the reset
\* command, another built-in command, a request for the assistant.
MessageTexts == {"", "/new", "/status", "hello"}
\* Callback data of the inline buttons (lines 586-620).
CallbackData == {"action:new", "action:diagnose", "action:status"}
\* Lines 626: the text handle_callback passes to handle_message.
DiagnoseText == "The gateway appears to be down."

Message(chat, user, text) ==
    [kind |-> "message", chat |-> chat, user |-> user, text |-> text, data |-> ""]
Callback(chat, user, data) ==
    [kind |-> "callback_query", chat |-> chat, user |-> user, text |-> "",
     data |-> data]
Updates ==
    {Message(c, u, t) : c \in Chats, u \in Users, t \in MessageTexts}
    \cup {Callback(c, u, d) : c \in Chats, u \in Users, d \in CallbackData}

\* An identity check that lets every sender pass.
AuthorizedAnyone(user) == TRUE
\* Lines 456 and 581: user_id != ALLOWED_USER.
Authorized(user) == user = ALLOWED_USER

\* Lines 453-499: the branch handle_message takes.
MessageBranch(user, text) ==
    IF text = "" THEN "empty"
    ELSE IF ~Authorized(user) THEN "rejected"
    ELSE IF text \in {"/new", "/start"} THEN "reset"
    ELSE IF text \in {"/status", "/help", "/voice"} THEN "builtin"
    ELSE "claude"

\* Lines 579-627: the branch handle_callback takes; "action:diagnose" calls
\* handle_message with the sender's id and a fixed text.
CallbackBranch(user, data) ==
    IF ~Authorized(user) THEN "ignored"
    ELSE IF data = "action:new" THEN "reset"
    ELSE IF data = "action:diagnose" THEN MessageBranch(user, DiagnoseText)
    ELSE "builtin"

\* Lines 670-673.
Branch(u) ==
    IF u.kind = "message" THEN MessageBranch(u.user, u.text)
    ELSE CallbackBranch(u.user, u.data)

\* A reset that empties the whole registry.
clear_every_session(chat) == [c \in Chats |-> None]
\* Lines 163-164.
clear_session(chat) == [sessions EXCEPT ![chat] = None]

\* Lines 667-673: the handler returns, and the loop turns to the next update.
Returns ==
    /\ dpPc' = "polling"
    /\ update' = None

\* Lines 660-673: getUpdates hands the loop its next update.
Receive(u) ==
    /\ dpPc = "polling"
    /\ nUpdates < MaxUpdates
    /\ nUpdates' = nUpdates + 1
    /\ dpPc' = "handling"
    /\ update' = Some(u)
    /\ UNCHANGED <<sessions, now, hmVars, rcVars, budgetVars, nRaised, regLog,
                   observed>>
    /\ UNCHANGED <<wdVars, hcVars, ctVars>>

\* Lines 453-459 and 581-582: the handler returns at once, after
\* "Not authorized." for a message of another user.
Reject ==
    /\ dpPc = "handling" /\ hmPc = "idle"
    /\ Branch(update[1]) \in {"empty", "rejected", "ignored"}
    /\ tgLog' = IF Branch(update[1]) = "rejected"
                 THEN send("Not authorized.") ELSE <<>>
    /\ Returns
    /\ UNCHANGED <<sessions, now, hmPc, chat_id, placeholder, last_edit_time,
                   last_edit_text, typings, rcVars, budgetVars, nRaised, regLog,
                   observed, nUpdates>>
    /\ UNCHANGED <<wdVars, hcVars, ctVars>>

\* Lines 464-467 and 608-610: /new, /start and the "new" button.
Reset ==
    /\ dpPc = "handling" /\ hmPc = "idle"
    /\ Branch(update[1]) = "reset"
    /\ sessions' = clear_session(update[1].chat)
    /\ regLog' = Append(regLog, RegClear(update[1].chat))
    /\ observed' = [observed EXCEPT ![update[1].chat] = None]
    /\ tgLog' = send("Session cleared.")
    /\ Returns
    /\ UNCHANGED <<now, hmPc, chat_id, placeholder, last_edit_time,
                   last_edit_text, typings, rcVars, budgetVars, nRaised, nUpdates>>
    /\ UNCHANGED <<wdVars, hcVars, ctVars>>

\* Lines 469-497 and 586-618: a command or button answered without the
\* assistant.
Builtin ==
    /\ dpPc = "handling" /\ hmPc = "idle"
    /\ Branch(update[1]) = "builtin"
    /\ tgLog' = send("status")
    /\ Returns
    /\ UNCHANGED <<sessions, now, hmPc, chat_id, placeholder, last_edit_time,
                   last_edit_text, typings, rcVars, budgetVars, nRaised, regLog,
                   observed, nUpdates>>
    /\ UNCHANGED <<wdVars, hcVars, ctVars>>

\* Line 499 on: the update is a request for the assistant, and a turn starts.
DispatchedTurn(sendOk, popenOk) ==
    /\ dpPc = "handling"
    /\ Branch(update[1]) = "claude"
    /\ StartTurn(update[1].chat, sendOk, popenOk)

\* Line 568: handle_message returns to the loop after the delivery.  Its
\* locals and those of run_claude_streaming are gone (here: back at their
\* initial values); the child process is not a local.
HandlerReturns ==
    /\ dpPc = "handling" /\ hmPc = "done"
    /\ Returns
    /\ nRaised' = IF rcPc = "raised" THEN nRaised + 1 ELSE nRaised
    /\ hmPc' = "idle" /\ chat_id' = "c1" /\ placeholder' = None
    /\ last_edit_time' = 0 /\ last_edit_text' = "" /\ tgLog' = <<>>
    /\ typings' = 0
    /\ rcPc' = "idle" /\ session_id' = None /\ full_text' = ""
    /\ new_session_id' = None /\ deadline' = 0
    /\ returncode' = None /\ result' = None /\ rcLines' = <<>> /\ rcCalls' = <<>>
    /\ UNCHANGED <<sessions, now, proc, budgetVars, regLog, observed, nUpdates>>
    /\ UNCHANGED <<wdVars, hcVars, ctVars>>

(***************************************************************************)
(* Specifications.                                                         *)
(***************************************************************************)
InitWatchdog == WatchdogInit /\ ProbeIdle /\ ChunkIdle /\ TurnInit
NextWatchdog == WatchdogStep

InitChunk == ChunkInit /\ WatchdogInit /\ ProbeIdle /\ TurnInit
NextChunk == ChunkEntry \/ ChunkIteration
SpecChunk == InitChunk /\ [][NextChunk]_vars
SpecWatchdog == InitWatchdog /\ [][NextWatchdog]_vars

InitTurn == TurnInit /\ WatchdogInit /\ ProbeIdle /\ ChunkIdle
NextTurn ==
    \/ \E chat \in Chats, sendOk \in BOOLEAN, popenOk \in BOOLEAN :
           StartTurn(chat, sendOk, popenOk)
    \/ \E line \in Lines : ReadLine(line)
    \/ StreamEnd
    \/ \E code \in {0, 1} : WaitReturns(code)
    \/ WaitExpires
    \/ \E d \in TickSteps : Tick(d)
    \/ Deliver
SpecTurn == InitTurn /\ [][NextTurn]_vars

\* One turn whose child streams partial messages of the lengths that matter
\* to on_partial, with the clock moving in steps below EditInterval.
NextThrottle ==
    \/ \E chat \in Chats, sendOk \in BOOLEAN, popenOk \in BOOLEAN :
           StartTurn(chat, sendOk, popenOk)
    \/ \E line \in ThrottleLines : ReadLine(line)
    \/ \E d \in ThrottleTickSteps : Tick(d)
SpecThrottle == InitTurn /\ [][NextThrottle]_vars

\* One turn whose child answers with result events of the lengths that
\* matter to the final delivery.
NextDeliver ==
    \/ \E chat \in Chats, sendOk \in BOOLEAN, popenOk \in BOOLEAN :
           StartTurn(chat, sendOk, popenOk)
    \/ \E line \in DeliverLines : ReadLine(line)
    \/ StreamEnd
    \/ \E code \in {0, 1} : WaitReturns(code)
    \/ Deliver
SpecDeliver == InitTurn /\ [][NextDeliver]_vars

\* One turn seen from the chat: the child streams partial messages long
\* enough to be edited into the placeholder, the join loop sends typing
\* signals while the worker runs, and the reply is then delivered.
PresenceLines == {LLong, LResult, LNonObject}
NextPresence ==
    \/ \E chat \in Chats, sendOk \in BOOLEAN, popenOk \in BOOLEAN :
           StartTurn(chat, sendOk, popenOk)
    \/ \E line \in PresenceLines : ReadLine(line)
    \/ StreamEnd
    \/ \E code \in {0, 1} : WaitReturns(code)
    \/ WaitExpires
    \/ Tick(EditInterval)
    \/ JoinTimeout
    \/ Deliver
SpecPresence == InitTurn /\ [][NextPresence]_vars

\* The dispatch loop: updates of any sender arrive one after the other, and
\* the turns they start run against a child that reports session tokens.
DispatchLines == {LSystem, LResult}
NextDispatch ==
    \/ \E u \in Updates : Receive(u)
    \/ Reject
    \/ Reset
    \/ Builtin
    \/ \E sendOk \in BOOLEAN, popenOk \in BOOLEAN : DispatchedTurn(sendOk, popenOk)
    \/ \E line \in DispatchLines : ReadLine(line)
    \/ StreamEnd
    \/ \E code \in {0, 1} : WaitReturns(code)
    \/ WaitExpires
    \/ Deliver
    \/ HandlerReturns
SpecDispatch == InitTurn /\ [][NextDispatch]_vars

\* The two threads of poll_loop side by side: the dispatch loop with its
\* turns, and the watchdog probing a gateway that is up, down, or whose
\* probe raises.
ConcurrentUpdates == {Message("c1", ALLOWED_USER, "hello")}
ConcurrentLines == {LResult}
ConcurrentWatchdogStep ==
    \E l \in {"pid", "nopid"}, g \in {"empty", "unreadable"} :
        WatchdogIteration(l, "listening", g)
NextConcurrent ==
    \/ \E u \in ConcurrentUpdates : Receive(u)
    \/ DispatchedTurn(TRUE, TRUE)
    \/ \E line \in ConcurrentLines : ReadLine(line)
    \/ StreamEnd
    \/ WaitReturns(0)
    \/ WaitExpires
    \/ Deliver
    \/ HandlerReturns
    \/ ConcurrentWatchdogStep
SpecConcurrent == InitTurn /\ [][NextConcurrent]_vars

\* The watchdog's thread is scheduled: its sleep ends (line 414).  Nothing
\* is assumed of the dispatch loop, the runner or the child.
FairSpecConcurrent == SpecConcurrent /\ WF_vars(ConcurrentWatchdogStep)

\* The scheduling the code guarantees: the clock advances, proc.wait ends
\* within its 10 s one way or the other, and the coordinator delivers once
\* the worker thread has ended.  The child owes no output and no exit.
FairSpecTurn ==
    /\ SpecTurn
    /\ WF_vars(\E d \in TickSteps : Tick(d))
    /\ WF_vars(WaitExpires \/ \E code \in {0, 1} : WaitReturns(code))
    /\ WF_vars(Deliver)

\* Calls of check_gateway_health, one after the other, each sub-check
\* observing any of its outcomes.
InitProbe == ProbeIdle /\ WatchdogInit /\ ChunkIdle /\ TurnInit
NextProbe ==
    \/ ProbeBegin
    \/ \E l \in LaunchctlOutcomes : LaunchctlBlock(l)
    \/ \E p \in LsofOutcomes : PortBlock(p)
    \/ \E g \in LogOutcomes : LogBlock(g)
SpecProbe == InitProbe /\ [][NextProbe]_vars

(***************************************************************************)
(* Watchdog properties.                                                    *)
(***************************************************************************)
\* The health the watchdog last learned before iteration i, read off the
\* probe history alone: the latest verdict before i, healthy when there is
\* none (a probe that raised gives no verdict).
RECURSIVE HealthyBefore(_)
HealthyBefore(i) ==
    IF i = 1 THEN TRUE
    ELSE IF probes[i - 1] = "raised" THEN HealthyBefore(i - 1)
    ELSE probes[i - 1] = "healthy"

SentAt(i, kind) == \E k \in 1..Len(wdSent) : wdSent[k].at = i /\ wdSent[k].kind = kind
WdKinds == [k \in 1..Len(wdSent) |-> wdSent[k].kind]

\* C1: a "down" alert is emitted exactly at each probe that is unhealthy
\* while the previous state was healthy, a "recovered" notice exactly at each
\* probe that is healthy while the previous state was unhealthy, and nothing
\* otherwise; alerts and notices alternate starting with "down"; and
\* [healthy, unhealthy, unhealthy, healthy] gives exactly "down", "recovered".
C1_EdgeTriggeredAlerts ==
    /\ \A i \in 1..Len(probes) :
          /\ SentAt(i, "down") <=> (probes[i] = "unhealthy" /\ HealthyBefore(i))
          /\ SentAt(i, "recovered") <=> (probes[i] = "healthy" /\ ~HealthyBefore(i))
    /\ \A k \in 1..Len(wdSent) :
          /\ wdSent[k].at \in 1..Len(probes)
          /\ wdSent[k].kind = (IF k % 2 = 1 THEN "down" ELSE "recovered")
          /\ k > 1 => wdSent[k - 1].at < wdSent[k].at
    /\ probes = <<"healthy", "unhealthy", "unhealthy", "healthy">>
          => WdKinds = <<"down", "recovered">>

\* The run [healthy, unhealthy, unhealthy, healthy] with its two messages.
C1_Witness ==
    /\ probes = <<"healthy", "unhealthy", "unhealthy", "healthy">>
    /\ WdKinds = <<"down", "recovered">>
    /\ wdSent[1].at = 2 /\ wdSent[2].at = 4

\* C2: alert_sent ("alerted") is true only while last_known_healthy
\* ("healthy") is false, so every transition that makes healthy true leaves
\* alerted false.
C2_AlertedOnlyWhileUnhealthy ==
    watchdog_last_state.alerted => ~watchdog_last_state.healthy

\* The watchdog is healthy again after an alert was sent and cleared.
C2_Witness ==
    /\ Len(wdSent) >= 2
    /\ wdSent[Len(wdSent)].kind = "recovered"
    /\ watchdog_last_state = [healthy |-> TRUE, alerted |-> FALSE]

(***************************************************************************)
(* Chunker properties.                                                     *)
(***************************************************************************)
\* C7: chunk_text terminates for every non-empty text and every limit >= 1:
\* each loop iteration that does not end the loop strictly shortens the
\* remaining text.
C7_EachIterationShortens ==
    [][(ChunkIteration /\ ctPc' = "loop") => Len(ctText') < Len(ctText)]_vars

\* C8: every piece produced by chunk_text(text, limit) has length <= limit.
C8_PiecesWithinLimit ==
    \A k \in 1..Len(ctChunks) : Len(ctChunks[k]) <= ctLimit

\* A finished call that made several pieces, one of them of full length.
C8_Witness ==
    /\ ctPc = "done"
    /\ Len(ctChunks) >= 2
    /\ \E k \in 1..Len(ctChunks) : Len(ctChunks[k]) = ctLimit

\* n newline characters.
Newlines(n) == [i \in 1..n |-> "\n"]

\* The pieces in order, with the newlines stripped after piece k put back
\* behind it.
RECURSIVE Rejoin(_, _)
Rejoin(chunks, stripped) ==
    IF chunks = <<>> THEN <<>>
    ELSE Head(chunks)
         \o (IF stripped = <<>> THEN <<>> ELSE Newlines(Head(stripped)))
         \o Rejoin(Tail(chunks), IF stripped = <<>> THEN <<>> ELSE Tail(stripped))

RECURSIVE Concat(_)
Concat(chunks) == IF chunks = <<>> THEN <<>> ELSE Head(chunks) \o Concat(Tail(chunks))

\* What is still to be split: nothing once the call has returned.
CtRemaining == IF ctPc = "done" THEN <<>> ELSE ctText

\* C9: the pieces in order, with the newlines stripped from the start of each
\* remainder re-inserted, reproduce the original text: only newline
\* characters at cut points are missing, nothing is added or reordered.
C9_RejoinReproducesText ==
    /\ ctPc \in {"loop", "done"} =>
          Rejoin(ctChunks, ctStripped) \o CtRemaining = ctOrig
    /\ ctPc = "done" =>
          /\ Len(ctStripped) <= Len(ctChunks)
          /\ Len(Concat(ctChunks)) + Len(Concat([k \in 1..Len(ctStripped) |->
                                                  Newlines(ctStripped[k])]))
                = Len(ctOrig)

\* A finished call that stripped a newline at a cut point.
C9_Witness ==
    /\ ctPc = "done"
    /\ Len(ctChunks) >= 2
    /\ \E k \in 1..Len(ctStripped) : ctStripped[k] >= 1
    /\ Concat(ctChunks) # ctOrig

(***************************************************************************)
(* Runner properties.                                                      *)
(***************************************************************************)
TimedOutAndKilled ==
    rcPc = "returned" /\ result = Returned("timeout", TimeoutText) /\ proc = "killed"

\* C3: an assistant process that never ends its output and emits no result
\* within the deadline (also one that emits nothing at all) makes
\* run_claude_streaming return the timeout outcome with the child killed:
\* once the deadline has passed the runner does not stay in the read loop.
C3_DeadlineEnforced ==
    (rcPc = "reading" /\ now > deadline) ~> (TimedOutAndKilled \/ rcPc = "waiting")

\* The token of the last decoded event that carried one, or None.
RECURSIVE LastToken(_)
LastToken(lines) ==
    IF lines = <<>> THEN None
    ELSE LET l == lines[Len(lines)]
         IN  IF l.kind = "object" /\ l.session_id # None THEN l.session_id
             ELSE LastToken(SubSeq(lines, 1, Len(lines) - 1))

\* C4: on every way run_claude_streaming finishes after the child was
\* started, if an event of the invocation carried a session token then the
\* registry entry of the conversation is the last such token.
C4_TokenPersistedOnEveryExit ==
    (rcPc \in {"returned", "raised"} /\ proc # "none" /\ LastToken(rcLines) # None)
        => sessions[chat_id] = LastToken(rcLines)

\* The text of the last result event that has a text field, or None.
RECURSIVE LastResultText(_)
LastResultText(lines) ==
    IF lines = <<>> THEN None
    ELSE LET l == lines[Len(lines)]
         IN  IF IsResult(l) /\ l.result # None THEN l.result
             ELSE LastResultText(SubSeq(lines, 1, Len(lines) - 1))

\* The text of the last progress event that has a non-empty text, or None.
RECURSIVE LastProgressText(_)
LastProgressText(lines) ==
    IF lines = <<>> THEN None
    ELSE LET l == lines[Len(lines)]
         IN  IF IsProgress(l) /\ l.message # Some("") THEN l.message
             ELSE LastProgressText(SubSeq(lines, 1, Len(lines) - 1))

\* The stream was read to its end and the child exited within the wait.
ReadToEnd ==
    /\ rcPc = "returned"
    /\ result[1].kind \in {"text", "no_output", "process_error"}
    /\ \A k \in 1..Len(rcLines) : ~RaisesInLoop(rcLines[k])

\* C5: for a stream read to its end, the final text is the text of the result
\* event if one was seen (a result without a text field discards nothing),
\* otherwise the text of the last progress event, and without either the
\* outcome is no_output (process_error when the child failed).
C5_ResultTextIsAuthoritative ==
    ReadToEnd =>
        IF LastResultText(rcLines) # None
        THEN result = Returned("text", LastResultText(rcLines)[1])
        ELSE IF LastProgressText(rcLines) # None
        THEN result = Returned("text", LastProgressText(rcLines)[1])
        ELSE result[1].kind \in {"no_output", "process_error"}

\* The texts of the decoded progress events, in stream order.
RECURSIVE ProgressTexts(_)
ProgressTexts(lines) ==
    IF lines = <<>> THEN <<>>
    ELSE (IF IsProgress(Head(lines)) THEN Head(lines).message ELSE <<>>)
         \o ProgressTexts(Tail(lines))

NonEmptyTexts(texts) == SelectSeq(texts, LAMBDA t : t # "")

OnPartialCalled == Len(rcCalls') = Len(rcCalls) + 1
Candidate == rcCalls'[Len(rcCalls')]
\* This step edited the placeholder to the candidate text.
EditEmitted ==
    /\ Len(tgLog') > Len(tgLog)
    /\ tgLog'[Len(tgLog) + 1] = Call("editMessageText", Candidate)
LastEmittedUnchanged ==
    last_edit_time' = last_edit_time /\ last_edit_text' = last_edit_text

ElapsedOk == now - last_edit_time >= 3
GrowthOk == Len(Candidate) - Len(last_edit_text) > 40
FitsMessage == Len(Candidate) <= 4000

\* C10 as stated: on_partial emits an edit exactly when (a) at least 3 s have
\* passed since the last emission, (b) the candidate is more than 40
\* characters longer than the last emitted text and (c) it has at most 4000
\* characters; the last-emitted time and text change only with an edit.
C10_EditExactlyWhenThreeHold ==
    [][OnPartialCalled =>
          /\ EditEmitted <=> (ElapsedOk /\ GrowthOk /\ FitsMessage)
          /\ ~EditEmitted => LastEmittedUnchanged]_vars

\* C10 as amended: as stated, with the further condition (d) that the
\* placeholder message was created.
C10_EditExactlyWhenFourHold ==
    [][OnPartialCalled =>
          /\ EditEmitted <=>
                (ElapsedOk /\ GrowthOk /\ FitsMessage /\ placeholder # None)
          /\ EditEmitted => (last_edit_time' = now /\ last_edit_text' = Candidate)
          /\ ~EditEmitted => LastEmittedUnchanged]_vars

\* An edit was emitted, and a later candidate that had grown enough was
\* refused because less than the interval had passed.
C10_Witness ==
    /\ rcCalls = <<Xs(41), Xs(82)>>
    /\ last_edit_text = Xs(41)
    /\ now - last_edit_time = 2
    /\ placeholder # None

(***************************************************************************)
(* Health probe properties.                                                *)
(***************************************************************************)
\* What a sub-check of the finished call came to: "pass", "fail", or
\* "could_not_run" when its tool could not be executed.
LivenessOutcome ==
    CASE hcSeen[1] = "pid" -> "pass"
      [] hcSeen[1] \in {"nopid", "notloaded"} -> "fail"
      [] OTHER -> "could_not_run"
PortOutcome ==
    CASE hcSeen[2] = "listening" -> "pass"
      [] hcSeen[2] = "notlistening" -> "fail"
      [] OTHER -> "could_not_run"

\* C15: for every combination of outcomes of the liveness, port and log
\* checks, the healthy flag check_gateway_health returns is the AND of those of
\* the liveness and port checks that were evaluated as pass or fail: a check
\* that could not run does not make the verdict unhealthy, and the log never
\* changes it.
C15_HealthyIsAndOfEvaluatedChecks ==
    hcPc = "returned" =>
        hcHealthy = (LivenessOutcome # "fail" /\ PortOutcome # "fail")

\* C18: whatever sub-checks fail to execute (tool missing, timeout, log file
\* missing, log file unreadable), check_gateway_health does not raise, and the
\* verdict it returns has a summary line for each of the three checks.
C18_ProbeNeverRaises ==
    /\ hcPc # "raised"
    /\ hcPc = "returned" => Len(hcLines) = 3

(***************************************************************************)
(* Watchdog properties: a probe that raises.                               *)
(***************************************************************************)
\* The verdicts the watchdog received: the probes that did not raise.
Verdicts == SelectSeq(probes, LAMBDA x : x # "raised")

\* How often a sequence of verdicts changes health, starting from healthy.
RECURSIVE Flips(_, _)
Flips(seq, before) ==
    IF seq = <<>> THEN 0
    ELSE (IF Head(seq) = before THEN 0 ELSE 1) + Flips(Tail(seq), Head(seq))

LastVerdictHealthy ==
    Verdicts = <<>> \/ Verdicts[Len(Verdicts)] = "healthy"

\* C19: a watchdog iteration whose probe raises leaves (healthy, alerted)
\* unchanged and sends nothing, and the loop goes on: the state and the
\* messages sent depend on the verdicts alone, so the watchdog reacts to the
\* next successful probe as it would have without the failing ones.
C19_RaisingProbeIsNoOp ==
    /\ [][(Len(probes') = Len(probes) + 1 /\ probes'[Len(probes')] = "raised")
            => (watchdog_last_state' = watchdog_last_state /\ wdSent' = wdSent)]_vars
    /\ [](/\ watchdog_last_state.healthy = LastVerdictHealthy
          /\ watchdog_last_state.alerted = ~LastVerdictHealthy
          /\ Len(wdSent) = Flips(Verdicts, "healthy"))

\* An alert, two probes that raised, then the recovery notice.
C19_Witness ==
    /\ probes = <<"unhealthy", "raised", "raised", "healthy">>
    /\ WdKinds = <<"down", "recovered">>
    /\ wdSent[2].at = 4
    /\ watchdog_last_state = [healthy |-> TRUE, alerted |-> FALSE]

(***************************************************************************)
(* Runner properties: the child process.                                   *)
(***************************************************************************)
\* C17: whenever a runner invocation has finished (returned or raised), its
\* child process has exited or has been killed, also when the stream ended
\* without the process exiting and when the read loop was left by an
\* exception.
C17_ChildGoneWhenInvocationFinished ==
    rcPc \in {"returned", "raised"} => proc \in {"none", "exited", "killed"}

(***************************************************************************)
(* Final delivery properties.                                              *)
(***************************************************************************)
\* This step is the final delivery of a turn; the calls it made.
DeliverStep == hmPc = "working" /\ hmPc' = "done"
DeliveredCalls == SubSeq(tgLog', Len(tgLog) + 1, Len(tgLog'))
\* The final reply of a turn whose runner returned.
FinalReply == result[1].text

NoMessageSent(calls) == \A k \in 1..Len(calls) : calls[k].op # "sendMessage"

RECURSIVE SumLen(_)
SumLen(calls) ==
    IF calls = <<>> THEN 0 ELSE Len(Head(calls).text) + SumLen(Tail(calls))

\* The texts of calls in order, with gaps[k] newlines behind the k-th.
RECURSIVE Joined(_, _)
Joined(calls, gaps) ==
    IF calls = <<>> THEN ""
    ELSE Head(calls).text
         \o (IF gaps = <<>> THEN "" ELSE Rep("\n", Head(gaps)))
         \o Joined(Tail(calls), IF gaps = <<>> THEN <<>> ELSE Tail(gaps))

\* calls are fresh messages that carry reply in pieces of at most 4000
\* characters: a single message when reply fits, and otherwise pieces that
\* give reply back once the newlines dropped between them are put back.
FreshMessagesOf(calls, reply) ==
    /\ Len(calls) >= 1
    /\ \A k \in 1..Len(calls) :
          /\ calls[k].op = "sendMessage"
          /\ Len(calls[k].text) \in 1..4000
    /\ Len(reply) <= 4000 => Len(calls) = 1
    /\ SumLen(calls) <= Len(reply)
    /\ \E gaps \in [1..(Len(calls) - 1) -> 0..(Len(reply) - SumLen(calls))] :
          Joined(calls, gaps) = reply

\* C14 as stated: a final reply of at most 4000 characters is written into
\* the placeholder by an edit and no new message is sent; a longer one makes
\* the placeholder be deleted and is delivered as fresh messages of at most
\* 4000 characters each.
C14_EditIfFitsElseDeleteAndChunk ==
    [][(DeliverStep /\ rcPc = "returned") =>
          IF Len(FinalReply) <= 4000
          THEN /\ DeliveredCalls # <<>>
               /\ DeliveredCalls[1] = Call("editMessageText", FinalReply)
               /\ NoMessageSent(DeliveredCalls)
          ELSE /\ DeliveredCalls # <<>>
               /\ DeliveredCalls[1].op = "deleteMessage"
               /\ FreshMessagesOf(Tail(DeliveredCalls), FinalReply)]_vars

\* C14 as amended: the edit in place needs the placeholder to exist; without
\* one, or for a longer reply, the reply is delivered as fresh messages (after
\* the deletion of the placeholder, if there is one).
C14_EditIfPlaceholderAndFits ==
    [][(DeliverStep /\ rcPc = "returned") =>
          IF placeholder # None /\ Len(FinalReply) <= 4000
          THEN /\ DeliveredCalls # <<>>
               /\ DeliveredCalls[1] = Call("editMessageText", FinalReply)
               /\ NoMessageSent(DeliveredCalls)
          ELSE IF placeholder # None
          THEN /\ DeliveredCalls # <<>>
               /\ DeliveredCalls[1].op = "deleteMessage"
               /\ FreshMessagesOf(Tail(DeliveredCalls), FinalReply)
          ELSE FreshMessagesOf(DeliveredCalls, FinalReply)]_vars

\* A reply of two paragraphs, 4501 characters, delivered: the placeholder
\* deleted, then one message per paragraph.
C14_Witness ==
    /\ hmPc = "done" /\ rcPc = "returned" /\ placeholder # None
    /\ Len(FinalReply) = 4501
    /\ Len(tgLog) = 4
    /\ tgLog[2].op = "deleteMessage"
    /\ tgLog[3] = Call("sendMessage", Xs(3000))
    /\ tgLog[4] = Call("sendMessage", Xs(1500))

(***************************************************************************)
(* Session registry properties.                                            *)
(***************************************************************************)
\* The entry the history of writes and clears leaves for conversation c:
\* the token of the last write for c unless a clear for c came after it.
RECURSIVE EntryAfter(_, _)
EntryAfter(log, c) ==
    IF log = <<>> THEN None
    ELSE LET e == log[Len(log)]
         IN  IF e.chat # c THEN EntryAfter(SubSeq(log, 1, Len(log) - 1), c)
             ELSE IF e.op = "set" THEN Some(e.token)
             ELSE None

\* C11: after any sequence of registry writes and clears over several
\* conversations, the lookup for conversation c gives the token of the most
\* recent write for c if no clear for c happened after it, and nothing
\* otherwise; a write or clear for one conversation leaves the entry of every
\* other conversation as it was.
C11_LookupGivesLastWrite ==
    /\ [](\A c \in Chats : sessions[c] = EntryAfter(regLog, c))
    /\ [][\A c \in Chats :
             (/\ Len(regLog') = Len(regLog) + 1
              /\ regLog'[Len(regLog')].chat # c) => sessions'[c] = sessions[c]]_vars

\* Tokens were written for both conversations and one of them was cleared:
\* the other still holds its token.
C11_Witness ==
    /\ Len(regLog) = 3
    /\ regLog[1].op = "set" /\ regLog[2].op = "set" /\ regLog[3].op = "clear"
    /\ regLog[1].chat # regLog[2].chat
    /\ sessions[regLog[3].chat] = None
    /\ \E c \in Chats : sessions[c] # None

(***************************************************************************)
(* Dispatch properties.                                                    *)
(***************************************************************************)
\* The update being handled comes from someone other than the allowed user.
HandlingStranger == update # None /\ update[1].user # "allowed_user"
RunnerInFlight == rcPc \in {"reading", "waiting"}

\* C12: an inbound message or button callback whose sender is not the
\* authorized user starts no runner invocation and causes no watchdog alert
\* or notice, whatever its text or action ("diagnose" included): while it is
\* handled no turn is open, and no step changes the runner, the child or
\* the watchdog.
C12_StrangerNeverReachesRunner ==
    /\ [](HandlingStranger => (hmPc = "idle" /\ ~RunnerInFlight))
    /\ [][HandlingStranger =>
             (/\ hmPc' = "idle"
              /\ UNCHANGED <<rcVars, wdVars>>
              /\ \A k \in 1..Len(tgLog') : tgLog'[k].text = "Not authorized.")]_vars

\* A message of a stranger was answered "Not authorized." and no child was
\* ever started.
C12_Witness ==
    /\ dpPc = "polling" /\ nUpdates = 1
    /\ tgLog = <<Call("sendMessage", "Not authorized.")>>
    /\ rcPc = "idle" /\ proc = "none"

\* C13: when the runner invocation raises inside the worker thread, the
\* turn still ends with one error message to the user, an edit of the
\* placeholder if there is one and a fresh message otherwise; handle_message
\* returns to the loop, which takes the next update, and the watchdog is not
\* touched.
C13_RaisedInvocationEndsInErrorMessage ==
    /\ [][(DeliverStep /\ rcPc = "raised") =>
             /\ Len(DeliveredCalls) = 1
             /\ DeliveredCalls[1].op =
                    (IF placeholder # None THEN "editMessageText" ELSE "sendMessage")
             /\ DeliveredCalls[1].text = "[error] TimeoutExpired"
             /\ UNCHANGED wdVars]_vars
    /\ [][(hmPc = "done" /\ rcPc = "raised" /\ hmPc' # hmPc) =>
             (hmPc' = "idle" /\ dpPc' = "polling" /\ nRaised' = nRaised + 1)]_vars
    /\ [](rcPc = "raised" => (dpPc = "handling" /\ hmPc \in {"working", "done"}))

\* After a turn whose runner raised, a later turn was answered with the
\* assistant's reply.
C13_Witness ==
    /\ nRaised >= 1
    /\ hmPc = "done" /\ rcPc = "returned"
    /\ result[1].kind = "text"
    /\ tgLog[Len(tgLog)].op \in {"editMessageReplyMarkup", "sendMessage"}

\* C16: at most one runner invocation is in flight: handle_message does not
\* go on to the delivery, does not return, and the loop takes no further
\* update, for this or another conversation, while the worker thread of the
\* current turn is alive; an invocation starts only in a turn of the update
\* being handled, when none is open.
C16_OneInvocationAtATime ==
    /\ [](RunnerInFlight => (hmPc = "working" /\ dpPc = "handling"))
    /\ [][nUpdates' # nUpdates => (~RunnerInFlight /\ hmPc = "idle")]_vars
    /\ [][(RunnerInFlight' /\ ~RunnerInFlight) =>
             (rcPc = "idle" /\ hmPc = "idle" /\ chat_id' = update[1].chat)]_vars

\* A second turn is in flight, for the other conversation, after the first
\* turn's invocation stored its token.
C16_Witness ==
    /\ nUpdates = 2
    /\ RunnerInFlight
    /\ Len(regLog) = 1
    /\ regLog[1].chat # chat_id

(***************************************************************************)
(* Resume and fresh mode.                                                  *)
(***************************************************************************)
\* This step starts a runner invocation.
InvocationStarts == hmPc = "idle" /\ hmPc' = "working"

\* C20: a runner invocation runs in resume mode with token t exactly when
\* the registry holds t for the conversation at its start, t being the last
\* token an earlier invocation observed and that no reset cleared since; it
\* runs in fresh mode with the system prompt when there is no such token.
C20_ResumesLastObservedToken ==
    [][InvocationStarts =>
          LET held == sessions[chat_id']
          IN  /\ held = observed[chat_id']
              /\ cmd' = (IF held # None THEN <<"--resume", held[1]>>
                         ELSE <<"--append-system-prompt", "system_prompt">>)]_vars

(***************************************************************************)
(* Runner properties: lines that yield no event record.                    *)
(***************************************************************************)
\* This step decoded one more stdout line; the line.
LineRead == Len(rcLines') = Len(rcLines) + 1
LastLineRead == rcLines'[Len(rcLines')]
\* The line yields no usable event record: blank, not JSON (truncated JSON
\* included), or JSON that is not an object.
Unusable(line) == line.kind \in {"blank", "garbage", "nonobject"}

\* C21: an output line that yields no usable event record is skipped and
\* leaves the rest of the invocation as it was: the runner keeps reading, and
\* the text so far, the token so far, the on_progress calls and the
\* registry are untouched, so the lines that follow have the effect they
\* would have had without it.
C21_UnusableLineIsSkipped ==
    [][(LineRead /\ Unusable(LastLineRead)) =>
          /\ rcPc' = "reading"
          /\ UNCHANGED <<full_text, new_session_id, rcCalls, sessions, result,
                         proc, tgLog>>]_vars

(***************************************************************************)
(* Watchdog and dispatch loop side by side.                                *)
(***************************************************************************)
\* This step is a watchdog iteration.
WatchdogIterates == Len(probes') = Len(probes) + 1

\* C22: the watchdog makes progress independently of turn handling: in
\* whatever state the dispatch loop and the runner are and however long they
\* stay there (a runner blocked in its read never moves again), the watchdog
\* goes on to its next iterations; an iteration reads and writes nothing of
\* the dispatch loop or the runner, and no step of theirs touches the
\* watchdog's state or messages.
C22_WatchdogProgressesIndependently ==
    /\ <>(Len(probes) = MaxProbes)
    /\ [][IF WatchdogIterates
          THEN UNCHANGED <<turnVars, ctVars, hcVars>>
          ELSE UNCHANGED wdVars]_vars

\* A turn is in flight, and the watchdog has sent its alert and its recovery
\* notice.
C22_Witness ==
    /\ hmPc = "working" /\ rcPc = "reading" /\ nUpdates = 1
    /\ probes = <<"healthy", "unhealthy", "raised", "healthy">>
    /\ WdKinds = <<"down", "recovered">>


\* The text the turn ends with: the error of the worker, the reply of the
\* runner, or the notice that there is none.
FinalText ==
    IF error_holder # None THEN "[error] " \o error_holder[1]
    ELSE IF result_holder # None /\ result_holder # Some("") THEN result_holder[1]
    ELSE NoResponseText

EditsOf(log) == SelectSeq(log, LAMBDA c : c.op = "editMessageText")
\* The placeholder was deleted at position k of the log.
DeletedAt(log, k) == log[k].op = "deleteMessage"

\* What the placeholder shows once the handler is through with the turn: the
\* final text by the last edit made to it, or nothing at all, because it was
\* deleted and the final text went out in fresh messages sent after that.
PlaceholderEndsWithFinalText ==
    IF \E k \in 1..Len(tgLog) : DeletedAt(tgLog, k)
    THEN \E k \in 1..Len(tgLog) :
            /\ DeletedAt(tgLog, k)
            /\ k < Len(tgLog)
            /\ \A j \in (k + 1)..Len(tgLog) : tgLog[j].op = "sendMessage"
    ELSE /\ EditsOf(tgLog) # <<>>
         /\ EditsOf(tgLog)[Len(EditsOf(tgLog))].text = FinalText

\* C23: within one turn every progressive edit of the placeholder and every
\* typing signal comes before the final delivery.  The delivery happens with
\* no runner in flight and sends no typing signal; once it has happened,
\* on_partial is not called again, no call to Telegram is added and no typing
\* signal is sent; and the placeholder, where there is one, then shows the
\* final text as the last content written to it.
C23_ProgressComesBeforeFinalDelivery ==
    /\ [][DeliverStep => (~RunnerInFlight /\ typings' = typings)]_vars
    /\ [][hmPc = "done" => UNCHANGED <<tgLog, typings, rcCalls>>]_vars
    /\ []((hmPc = "done" /\ placeholder # None) => PlaceholderEndsWithFinalText)

\* A turn delivered after a progressive edit and two typing signals of the
\* join loop: the final edit is the last content of the placeholder.
C23_Witness ==
    /\ hmPc = "done"
    /\ placeholder # None
    /\ typings = 4
    /\ tgLog = <<Call("sendMessage", "..."),
                 Call("editMessageText", Xs(EditMinGrowth + 1)),
                 Call("editMessageText", "Hello!"),
                 Call("editMessageReplyMarkup", "")>>
====
